---- MODULE Spec2Model ----
(***************************************************************************)
(* Model of sql-nameguard's SSCS engine: the structural scorer, the alias  *)
(* extractor, the semantic penalty and the aggregation in                  *)
(* SSCSCalculator.calculate.                                               *)
(*                                                                         *)
(* Numbers.  Structural scores are multiples of 0.5, similarities are kept *)
(* in hundredths, and everything derived from them is an exact rational    *)
(* [n |-> numerator, d |-> denominator] with d > 0.                        *)
(*                                                                         *)
(* Trees.  A parsed statement is a sequence of nodes in preorder; node i   *)
(* carries its sqlglot class, the index of its parent (0 for the root),    *)
(* its alias ("" when it has none) and, for leaves, a name.  The subtree   *)
(* of a node is a contiguous range of indices.  The AST provider and the   *)
(* text embedder are the environment: Init draws the parsed tree and the   *)
(* embedder's responses from bounded sets.  Rendering a subtree with       *)
(* .sql() and parsing the text again is taken to give the subtree back.    *)
(***************************************************************************)
EXTENDS Integers, Sequences, FiniteSets, TLC

\* ------------------------------------------------------------- bounds
MaxNodes == 8
MaxScoreNodes == 5
MaxParseNodes == 5
MaxDepth == 2
MaxRecords == 4
MaxScore2 == 4
MaxTextLen == 5
MaxCallNodes == 5
MaxMessages == 3

\* ------------------------------------------------------------- rationals
Rat(n, d) == [n |-> n, d |-> d]
RatInt(k) == Rat(k, 1)
RatAdd(a, b) == Rat(a.n * b.d + b.n * a.d, a.d * b.d)
RatMul(a, b) == Rat(a.n * b.n, a.d * b.d)
RatEq(a, b) == a.n * b.d = b.n * a.d
RatLt(a, b) == a.n * b.d < b.n * a.d
RatLeq(a, b) == a.n * b.d <= b.n * a.d
RatGt(a, b) == RatLt(b, a)

\* floor of a / b for b > 0 (\div already floors in TLA+)
FloorDiv(a, b) == a \div b

\* round(x, digits) with scale = 10^digits: the nearest multiple of 1/scale,
\* ties to the even one, returned as the integer number of 1/scale units.
RoundTo(x, scale) ==
    LET num == x.n * scale
        q   == FloorDiv(num, x.d)
        r2  == 2 * (num - q * x.d)
    IN  IF r2 < x.d THEN q
        ELSE IF r2 > x.d THEN q + 1
        ELSE IF q % 2 = 0 THEN q ELSE q + 1

Round2(x) == RoundTo(x, 100)
Round3(x) == RoundTo(x, 1000)

\* ------------------------------------------------------------- sequences
RECURSIVE SeqOfSet(_)
\* the elements of a finite set of integers in increasing order
SeqOfSet(S) ==
    IF S = {} THEN <<>>
    ELSE LET m == CHOOSE x \in S : \A y \in S : x <= y
         IN  <<m>> \o SeqOfSet(S \ {m})

Range(s) == {s[i] : i \in 1..Len(s)}

\* ------------------------------------------------------------- AST provider
\* sqlglot expression classes that matter to the engine.  "And" is a subclass
\* of exp.Connector; "Column" stands for every other leaf expression.
NodeTypes ==
    {"Select", "With", "CTE", "Subquery", "Where", "Case", "And",
     "Alias", "Table", "Column"}

\* the classes an object of class ty is an instance of (isinstance)
Mro(ty) == IF ty = "And" THEN {"And", "Connector"} ELSE {ty}
IsInstance(ty, cls) == cls \in Mro(ty)

\* which classes the parser puts under which
ChildTypes ==
    [ty \in NodeTypes |->
        CASE ty = "Select"   -> {"With", "Where", "Alias", "Subquery", "Table"}
          [] ty = "With"     -> {"CTE"}
          [] ty = "CTE"      -> {"Select"}
          [] ty = "Subquery" -> {"Select"}
          [] ty = "Where"    -> {"Subquery", "Case", "And"}
          [] ty = "And"      -> {"Subquery", "Case"}
          [] ty = "Alias"    -> {"Column", "Subquery", "Table", "Case"}
          [] OTHER           -> {}]

\* With holds at least one CTE; CTE, Subquery and Alias hold exactly one
\* expression (their `this`)
MinKids(ty) == IF ty \in {"With", "CTE", "Subquery", "Alias"} THEN 1 ELSE 0
OneKid(ty) == ty \in {"CTE", "Subquery", "Alias"}

Node(ty, p, a, nm) == [type |-> ty, parent |-> p, alias |-> a, name |-> nm]

KidSet(t, i) == {j \in 1..Len(t) : t[j].parent = i}
Kids(t, i) == SeqOfSet(KidSet(t, i))

\* last index of the subtree of node i (subtrees are contiguous in preorder)
SubEnd(t, i) ==
    CHOOSE j \in i..Len(t) :
        /\ \A k \in (i + 1)..j : t[k].parent >= i
        /\ j = Len(t) \/ t[j + 1].parent < i
SubNodes(t, i) == i..SubEnd(t, i)

RECURSIVE Ancestors(_, _)
\* proper ancestors of node i
Ancestors(t, i) ==
    IF t[i].parent = 0 THEN {} ELSE {t[i].parent} \cup Ancestors(t, t[i].parent)

\* a tree family: the classes, the labels and the size the parser may produce
Family(types, cteNames, aliasNames, tableAliases, leafNames, max) ==
    [types |-> types, cteNames |-> cteNames, aliasNames |-> aliasNames,
     tableAliases |-> tableAliases, leafNames |-> leafNames, max |-> max]

Labels(F, ty) ==
    CASE ty = "CTE"    -> {<<a, "">> : a \in F.cteNames}
      [] ty = "Alias"  -> {<<a, "">> : a \in F.aliasNames}
      [] ty = "Table"  -> {<<a, nm>> : a \in F.tableAliases, nm \in F.leafNames}
      [] ty = "Column" -> {<<"", nm>> : nm \in F.leafNames}
      [] OTHER         -> {<<"", "">>}

NodeComplete(t, i) == Cardinality(KidSet(t, i)) >= MinKids(t[i].type)

\* the nodes a parser reading on can still attach a child to
Open(t) ==
    LET last == Len(t)
        path == {last} \cup Ancestors(t, last)
    IN  {p \in path :
            /\ \A d \in path : d > p => NodeComplete(t, d)
            /\ OneKid(t[p].type) => KidSet(t, p) = {}}

Extend(F, t) ==
    UNION {
        UNION {
            {Append(t, Node(ty, p, l[1], l[2])) : l \in Labels(F, ty)}
            : ty \in {c \in ChildTypes[t[p].type] \cap F.types :
                        c \in {"With", "Where"} =>
                            \A k \in KidSet(t, p) : t[k].type # c}}
        : p \in Open(t)}

RECURSIVE Grow(_, _)
\* every tree prefix of at most n nodes
Grow(F, n) ==
    IF n <= 1 THEN {<<Node("Select", 0, "", "")>>}
    ELSE LET prev == Grow(F, n - 1)
         IN  prev \cup UNION {Extend(F, t) : t \in {u \in prev : Len(u) = n - 1}}

Trees(F) == {t \in Grow(F, F.max) : \A i \in 1..Len(t) : NodeComplete(t, i)}

\* ------------------------------------------------------------- configuration
\* SSCSCalculator.weights: exact class -> base weight
weights ==
    [ty \in {"Join", "Where", "Group", "Having", "Order", "Case", "Window",
              "Connector", "Subquery"} |->
        IF ty \in {"Case", "Window"} THEN 2 ELSE 1]

\* SSCSCalculator.semantic_weight = 0.5
semantic_weight == Rat(1, 2)

\* low_similarity_items[:5]
MaxExamples == 5

\* the configuration SSCSCalculator.__init__ stores on the instance
__init__ ==
    [weights |-> weights,
     semantic_weight |-> semantic_weight,
     min_alias_length |-> 3,
     generic_aliases |-> {"temp", "data", "t", "x", "val", "obj", "row"}]

\* the accumulators a call of calculate starts with, whatever an earlier
\* call left in them
StartOfCallStale(left) ==
    [struct_score |-> 0, component_scores |-> <<>>, sscs_scores |-> left.sscs_scores]

StartOfCall(left) ==
    [struct_score |-> 0, component_scores |-> <<>>, sscs_scores |-> <<>>]

None == "None"

\* ------------------------------------------------------------- structural scorer
\* base_weight + (0.5 * depth), in half units
OwnScore(ty, depth) ==
    IF ty \in DOMAIN weights THEN 2 * weights[ty] + depth ELSE 0

\* the depth handed to the children
NextDepthFlat(ty, depth) == depth
NextDepth(ty, depth) ==
    IF IsInstance(ty, "Subquery") THEN depth + 1 ELSE depth

\* exclude_node and isinstance(node, exclude_node)
Excluded(ty, exclude_node) ==
    exclude_node # None /\ IsInstance(ty, exclude_node)

RECURSIVE _compute_structural_score(_, _, _, _)
RECURSIVE ScoreKids(_, _, _, _)
\* SSCSCalculator._compute_structural_score; the result is in half units
\* (a score of 1.5 is 3)
_compute_structural_score(t, node, depth, exclude_node) ==
    IF Excluded(t[node].type, exclude_node) THEN 0
    ELSE OwnScore(t[node].type, depth)
         + ScoreKids(t, Kids(t, node), NextDepth(t[node].type, depth), exclude_node)

ScoreKids(t, kids, depth, exclude_node) ==
    IF kids = <<>> THEN 0
    ELSE _compute_structural_score(t, Head(kids), depth, exclude_node)
         + ScoreKids(t, Tail(kids), depth, exclude_node)

Half(score2) == Rat(score2, 2)

\* ------------------------------------------------------------- alias extractor
\* node.sql(): the text of a subtree, one entry per node in preorder
Code(t, i) ==
    [k \in 1..(SubEnd(t, i) - i + 1) |->
        LET n == t[i + k - 1]
        IN  <<n.type, n.alias, n.name, IF k = 1 THEN 0 ELSE n.parent - i + 1>>]

RECURSIVE Bfs(_, _)
Bfs(t, queue) ==
    IF queue = <<>> THEN <<>>
    ELSE <<Head(queue)>> \o Bfs(t, Tail(queue) \o Kids(t, Head(queue)))

\* node.find_all(cls): the nodes of the subtree that are instances of cls,
\* breadth first, the node itself included
find_all(t, root, cls) ==
    LET IsCls(i) == IsInstance(t[i].type, cls)
    IN  SelectSeq(Bfs(t, <<root>>), IsCls)

This(t, i) == Kids(t, i)[1]

\* the nested add(alias, typ, code) of SQLParser.parse
addNoDedup(acc, alias, typ, code) ==
    IF alias = "" THEN acc
    ELSE [results |-> Append(acc.results, [alias |-> alias, type |-> typ, code |-> code]),
          seen |-> acc.seen \cup {<<typ, alias, code>>}]
add(acc, alias, typ, code) ==
    IF alias = "" THEN acc
    ELSE IF <<typ, alias, code>> \in acc.seen THEN acc
    ELSE [results |-> Append(acc.results, [alias |-> alias, type |-> typ, code |-> code]),
          seen |-> acc.seen \cup {<<typ, alias, code>>}]

\* Alias.name is the text of `this`, empty for an aliased expression
AliasNodeName(t, i) == ""

\* what each of the three passes hands to add(), in order
CtePass(t, root) ==
    LET nodes == find_all(t, root, "CTE")
    IN  [k \in 1..Len(nodes) |->
            [alias |-> t[nodes[k]].alias, type |-> "CTE",
             code |-> Code(t, This(t, nodes[k]))]]

AliasKind(innerType) ==
    IF \E c \in {"Table", "Subquery", "Select"} : IsInstance(innerType, c)
    THEN "table" ELSE "column"

AliasPass(t, root) ==
    LET nodes == find_all(t, root, "Alias")
    IN  [k \in 1..Len(nodes) |->
            LET inner == This(t, nodes[k])
                a == t[nodes[k]].alias
            IN  [alias |-> IF a # "" THEN a ELSE AliasNodeName(t, nodes[k]),
                 type |-> AliasKind(t[inner].type),
                 code |-> Code(t, inner)]]

TablePass(t, root) ==
    LET nodes == find_all(t, root, "Table")
        HasAlias(i) == t[i].alias # ""
        aliased == SelectSeq(nodes, HasAlias)
    IN  [k \in 1..Len(aliased) |->
            [alias |-> t[aliased[k]].alias, type |-> "table",
             code |-> Code(t, aliased[k])]]

RECURSIVE AddAll(_, _)
AddAll(acc, occs) ==
    IF occs = <<>> THEN acc
    ELSE AddAll(add(acc, Head(occs).alias, Head(occs).type, Head(occs).code), Tail(occs))

\* SQLParser.parse on the statement whose tree is the subtree of root
parse(t, root) ==
    AddAll([results |-> <<>>, seen |-> {}],
           CtePass(t, root) \o AliasPass(t, root) \o TablePass(t, root)).results

\* ------------------------------------------------------------- analyzer
\* The text embedder, as the engine sees it: for an alias record it either
\* gives the cosine similarity of the two embeddings (in hundredths), drawn
\* per alias text, or cannot embed the text and raises.
EmbedOk(emb, element) == element.alias \notin emb.broken
Similarity(emb, element) == emb.sim[element.alias]

\* SQLAnalyzer.calculate_similarities: TRUE when every embedding was produced
CalculateSimilaritiesOk(emb, parsed_elements) ==
    \A k \in 1..Len(parsed_elements) : EmbedOk(emb, parsed_elements[k])

\* score < threshold
IsLowInclusive(similarity, threshold) == similarity <= threshold
IsLow(similarity, threshold) == similarity < threshold

\* SQLAnalyzer.analyze: the analysis list and the warnings it logs
analyze(emb, parsed_elements, threshold, logw) ==
    LET analysis ==
            [k \in 1..Len(parsed_elements) |->
                [alias |-> parsed_elements[k].alias,
                 code |-> parsed_elements[k].code,
                 type |-> parsed_elements[k].type,
                 similarity |-> Similarity(emb, parsed_elements[k])]]
        Warn(item) == IsLow(item.similarity, threshold) /\ logw
        low == SelectSeq(analysis, Warn)
    IN  [ok |-> CalculateSimilaritiesOk(emb, parsed_elements),
         analysis |-> analysis,
         log |-> [k \in 1..Len(low) |->
                    [kind |-> "alias", alias |-> low[k].alias,
                     value |-> Rat(low[k].similarity, 100)]]]

\* ------------------------------------------------------------- semantic penalty
RECURSIVE SumBadness(_)
\* sum(1.0 - item['similarity'] for item in items), in hundredths
SumBadness(items) ==
    IF items = <<>> THEN 0
    ELSE (100 - Head(items).similarity) + SumBadness(Tail(items))

RECURSIVE SumSimilarity(_)
SumSimilarity(items) ==
    IF items = <<>> THEN 0 ELSE Head(items).similarity + SumSimilarity(Tail(items))

\* sum(badness of the low items) / len(analysis)
AvgBadnessOverLow(low_similarity_items, analysis) ==
    Rat(SumBadness(low_similarity_items), 100 * Len(low_similarity_items))
AvgBadness(low_similarity_items, analysis) ==
    Rat(SumBadness(low_similarity_items), 100 * Len(analysis))

\* self.semantic_weight * avg_badness
UnweightedPenalty(avg_badness) == avg_badness
WeightedPenalty(avg_badness) == RatMul(semantic_weight, avg_badness)

Take(s, n) == SubSeq(s, 1, IF Len(s) < n THEN Len(s) ELSE n)

\* SSCSCalculator._compute_semantic_penalty, from the analysis list on
\* (similarities to 3 places are thousandths)
PenaltyOf(analysis, threshold) ==
    IF analysis = <<>>
    THEN [penalty |-> RatInt(0),
          stats |-> [total |-> 0, low_similarity |-> <<>>, average_similarity |-> 0]]
    ELSE LET Low(item) == IsLow(item.similarity, threshold)
             low_similarity_items == SelectSeq(analysis, Low)
             penalty ==
                 IF low_similarity_items # <<>>
                 THEN WeightedPenalty(AvgBadness(low_similarity_items, analysis))
                 ELSE RatInt(0)
             avg_similarity == Rat(SumSimilarity(analysis), 100 * Len(analysis))
             shown == Take(low_similarity_items, MaxExamples)
         IN  [penalty |-> penalty,
              stats |->
                [total |-> Len(analysis),
                 low_similarity_count |-> Len(low_similarity_items),
                 low_similarity_examples |->
                    [k \in 1..Len(shown) |->
                        [alias |-> shown[k].alias,
                         similarity |-> Round3(Rat(shown[k].similarity, 100)),
                         type |-> shown[k].type]],
                 average_similarity |-> Round3(avg_similarity)]]

\* _compute_semantic_penalty(root_node, threshold, log_warnings): ok is FALSE
\* when the embedder raised, and then nothing else of the record is used
_compute_semantic_penalty(t, root_node, emb, threshold, logw) ==
    LET an == analyze(emb, parse(t, root_node), threshold, logw)
        out == PenaltyOf(an.analysis, threshold)
    IN  [ok |-> an.ok, penalty |-> out.penalty, stats |-> out.stats, log |-> an.log]

\* ------------------------------------------------------------- aggregation
\* score * (1 + penalty)
SscsPenaltyOnly(score, penalty) == RatMul(score, penalty)
Sscs(score, penalty) == RatMul(score, RatAdd(RatInt(1), penalty))

\* sscs > complexity_threshold and log_warnings
ExceedsInclusive(sscs, threshold, logw) == RatLeq(RatInt(threshold), sscs) /\ logw
Exceeds(sscs, threshold, logw) == RatGt(sscs, RatInt(threshold)) /\ logw

\* the entry written under a key of sscs_scores
Entry(sscs, score, penalty) ==
    [SSCS |-> Round2(sscs), StructuralScore |-> Round2(score),
     SemanticPenalty |-> Round2(penalty)]

\* d[key] = val on a dict that keeps insertion order
DictSet(d, key, val) ==
    IF \E k \in 1..Len(d) : d[k].key = key
    THEN [k \in 1..Len(d) |-> IF d[k].key = key THEN [key |-> key, val |-> val] ELSE d[k]]
    ELSE Append(d, [key |-> key, val |-> val])

DictGet(d, key) == (CHOOSE e \in Range(d) : e.key = key).val

\* which tree the pass before the main-query warning analyses: main_query = parsed
MainQueryRoot(t) == 1

\* ------------------------------------------------------------- suggestion service
\* A response text is a sequence of lexical pieces: the two braces, the
\* colon, a double-quoted string, a single-quoted string, a run of
\* whitespace and a word of prose.  Strings hold no quote or brace and
\* objects hold at most one pair.
Pieces == {"{", "}", ":", "dq", "sq", "ws", "txt"}

Texts(maxlen) == UNION {[1..n -> Pieces] : n \in 0..maxlen}

Slice(s, i, j) == [k \in 1..(j - i + 1) |-> s[i + k - 1]]

\* str.strip()
strip(text) ==
    LET inked == {i \in 1..Len(text) : text[i] # "ws"}
    IN  IF inked = {} THEN <<>>
        ELSE Slice(text,
                   CHOOSE i \in inked : \A j \in inked : i <= j,
                   CHOOSE i \in inked : \A j \in inked : j <= i)

\* re.search(r'\{.*\}', text, re.DOTALL): from the first opening brace to
\* the last closing brace after it
search(text) ==
    LET opens == {i \in 1..Len(text) : text[i] = "{"}
        first == CHOOSE i \in opens : \A j \in opens : i <= j
        closes == {i \in 1..Len(text) : text[i] = "}" /\ i > first}
        last == CHOOSE i \in closes : \A j \in closes : j <= i
    IN  IF opens = {} \/ closes = {}
        THEN [found |-> FALSE, group |-> <<>>]
        ELSE [found |-> TRUE, group |-> Slice(text, first, last)]

\* str.replace("'", '"')
replace(text) == [k \in 1..Len(text) |-> IF text[k] = "sq" THEN "dq" ELSE text[k]]

RECURSIVE SkipWs(_, _)
SkipWs(text, i) ==
    IF i <= Len(text) /\ text[i] = "ws" THEN SkipWs(text, i + 1) ELSE i

At(text, i) == IF i <= Len(text) THEN text[i] ELSE "eof"

JsonFail == [ok |-> FALSE, next |-> 0, value |-> [kind |-> "none"]]
JsonStr == [kind |-> "str"]
JsonDict(items) == [kind |-> "dict", items |-> items]

RECURSIVE JsonValue(_, _)
\* the JSON value starting at or after position i
JsonValue(text, i) ==
    LET j == SkipWs(text, i)
    IN  IF At(text, j) = "dq" THEN [ok |-> TRUE, next |-> j + 1, value |-> JsonStr]
        ELSE IF At(text, j) # "{" THEN JsonFail
        ELSE LET k == SkipWs(text, j + 1)
             IN  IF At(text, k) = "}"
                 THEN [ok |-> TRUE, next |-> k + 1, value |-> JsonDict(<<>>)]
                 ELSE IF At(text, k) # "dq" THEN JsonFail
                 ELSE LET c == SkipWs(text, k + 1)
                      IN  IF At(text, c) # ":" THEN JsonFail
                          ELSE LET v == JsonValue(text, c + 1)
                                   e == SkipWs(text, v.next)
                               IN  IF v.ok /\ At(text, e) = "}"
                                   THEN [ok |-> TRUE, next |-> e + 1,
                                         value |-> JsonDict(<<v.value>>)]
                                   ELSE JsonFail

\* json.loads: one value and nothing but whitespace after it
loads(text) ==
    LET v == JsonValue(text, 1)
    IN  IF v.ok /\ SkipWs(text, v.next) > Len(text) THEN v ELSE JsonFail

\* JSONParser.extract_json
extract_json(text) ==
    LET json_str == search(text)
    IN  IF json_str.found
        THEN LET v == loads(replace(json_str.group))
             IN  IF v.ok THEN [raised |-> "", value |-> v.value]
                 ELSE [raised |-> "ValueError", value |-> [kind |-> "none"]]
        ELSE [raised |-> "", value |-> JsonDict(<<>>)]

\* LLMSuggester.suggest_aliases, from the provider's answer on
suggest_aliases(answer) ==
    LET response_text == strip(answer)
        response_json == extract_json(response_text)
    IN  IF response_json.raised # ""
        THEN [kind |-> response_json.raised]
        ELSE [kind |-> "ok",
              response_object |-> response_json.value,
              raw_response |-> response_text]

\* ------------------------------------------------------------- LLM request
\* Strings that are looked into are sequences of pieces: a base64 payload
\* of whitespace and data, a mime type of words and slashes.
TextPart(text) == [part |-> "TextPart", text |-> text]
ImagePart(b64, mime_type) == [part |-> "ImagePart", b64 |-> b64, mime_type |-> mime_type]
Message(role, parts) == [role |-> role, parts |-> parts]

\* Message.text
Message_text(role, text) == Message(role, <<TextPart(text)>>)

\* Message.text_and_images
Message_text_and_images(role, text, images) ==
    Message(role, <<TextPart(text)>> \o images)

PartRaises(p) ==
    IF p.part = "TextPart" THEN FALSE
    ELSE IF p.part = "ImagePart"
         THEN strip(p.b64) = <<>> \/ "/" \notin Range(p.mime_type)
         ELSE TRUE

MessageRaises(m) ==
    \/ m.role \notin {"system", "user", "assistant", "tool"}
    \/ Len(m.parts) = 0
    \/ \E j \in 1..Len(m.parts) : PartRaises(m.parts[j])

\* LLMRequest._validate: what it raises, "" when it returns
_validate(req) ==
    IF \/ req.model = ""
       \/ req.provider \notin {"openai", "anthropic", "google"}
       \/ Len(req.messages) = 0
       \/ req.max_tokens <= 0
       \/ ~(0 <= req.temperature /\ req.temperature <= 20)
       \/ \E i \in 1..Len(req.messages) : MessageRaises(req.messages[i])
    THEN "ValueError" ELSE ""

\* ------------------------------------------------------------- state
VARIABLES
    \* the call's arguments and environment
    tree,                   \* sqlglot.parse_one(sql), when it succeeds
    parse_ok,               \* whether sqlglot.parse_one(sql) succeeds
    embedder,               \* the text embedder's responses
    complexity_threshold,
    similarity_threshold,   \* in hundredths
    log_warnings,
    \* SSCSCalculator.calculate
    pc,
    ctes, idx,
    struct_score, component_scores, sscs_scores,
    cte_score, cte_penalty, cte_sscs,
    main_score, main_penalty, main_sscs,
    semantic_penalty, alias_stats, final_sscs,
    log,                    \* what the loggers have been handed
    result,                 \* what the caller gets
    \* direct calls of the pure functions
    node, depth, score,     \* _compute_structural_score(node, depth)
    analysis, penalty_out,  \* _compute_semantic_penalty on an analysis list
    results,                \* SQLParser.parse
    \* LLMSuggester.suggest_aliases
    response,               \* the text the provider answered
    suggestion,             \* what the caller gets
    \* one SSCSCalculator instance over several calls
    self,                   \* the instance's configuration
    memo,                   \* an earlier call: its arguments and its result
    \* one LLMRequest
    request,                \* its fields; temperature in tenths
    raised                  \* what the last call on it raised, "" if nothing

inputVars == <<tree, parse_ok, embedder, complexity_threshold, similarity_threshold, log_warnings>>
calcVars == <<ctes, idx, struct_score, component_scores, sscs_scores,
              cte_score, cte_penalty, cte_sscs, main_score, main_penalty, main_sscs,
              semantic_penalty, alias_stats, final_sscs, log, result>>
scoreVars == <<node, depth, score>>
penaltyVars == <<analysis, penalty_out>>
parseVars == <<results>>
suggestVars == <<response, suggestion>>
callVars == <<self, memo>>
requestVars == <<request, raised>>
otherVars == <<suggestVars, callVars, requestVars>>
vars == <<inputVars, pc, calcVars, scoreVars, penaltyVars, parseVars, otherVars>>

NoRat == RatInt(0)

CalcIdle ==
    /\ ctes = <<>> /\ idx = 1
    /\ struct_score = 0 /\ component_scores = <<>> /\ sscs_scores = <<>>
    /\ cte_score = 0 /\ cte_penalty = NoRat /\ cte_sscs = NoRat
    /\ main_score = 0 /\ main_penalty = NoRat /\ main_sscs = NoRat
    /\ semantic_penalty = NoRat /\ alias_stats = <<>> /\ final_sscs = NoRat
    /\ log = <<>>
    /\ result = [kind |-> "none"]
ScoreIdle == node = 1 /\ depth = 0 /\ score = 0
PenaltyIdle == analysis = <<>> /\ penalty_out = [penalty |-> NoRat, stats |-> <<>>]
ParseIdle == results = <<>>
SuggestIdle == response = <<>> /\ suggestion = [kind |-> "none"]
EngineIdle == self = __init__ /\ memo = [kind |-> "none"]
RequestIdle == request = <<>> /\ raised = ""
OtherIdle == SuggestIdle /\ EngineIdle /\ RequestIdle

EnvIdle ==
    /\ parse_ok = TRUE
    /\ embedder = [sim |-> <<>>, broken |-> {}]
    /\ complexity_threshold = 0
    /\ log_warnings = TRUE

\* ------------------------------------------------------------- calculate
CteNames == {"c", "overall", "final SELECT"}
CalcAliasNames == {"x"}
CalcTypes == {"Select", "With", "CTE", "Subquery", "Where", "Alias", "Column"}
CalcFamily == Family(CalcTypes, CteNames, CalcAliasNames, {""}, {"a"}, MaxNodes)
CalcTrees == Trees(CalcFamily)
CalcSims == {20, 100}
ComplexityThresholds == {1}

UsedAliases(t) == {t[i].alias : i \in 1..Len(t)} \ {""}

Embedders(t) ==
    {[sim |-> f, broken |-> b] :
        f \in {g \in [CteNames \cup CalcAliasNames -> CalcSims] :
                 \A a \in DOMAIN g : a \notin UsedAliases(t) => g[a] = 100},
        b \in {{}} \cup {{a} : a \in UsedAliases(t)}}

Init ==
    /\ pc = "parse"
    /\ similarity_threshold = 70
    /\ complexity_threshold \in ComplexityThresholds
    /\ log_warnings \in BOOLEAN
    /\ \/ /\ parse_ok = TRUE
          /\ tree \in CalcTrees
          /\ embedder \in Embedders(tree)
       \/ /\ parse_ok = FALSE
          /\ tree = <<Node("Select", 0, "", "")>>
          /\ embedder \in Embedders(tree)
    /\ CalcIdle /\ ScoreIdle /\ PenaltyIdle /\ ParseIdle
    /\ OtherIdle

\* lines 33-46: parse, then collect the CTEs
Parse ==
    /\ pc = "parse"
    /\ IF parse_ok
       THEN /\ ctes' = find_all(tree, 1, "CTE")
            /\ pc' = "cte"
            /\ UNCHANGED result
       ELSE /\ result' = [kind |-> "error"]
            /\ pc' = "done"
            /\ UNCHANGED ctes
    /\ UNCHANGED <<idx, struct_score, component_scores, sscs_scores,
                   cte_score, cte_penalty, cte_sscs, main_score, main_penalty,
                   main_sscs, semantic_penalty, alias_stats, final_sscs, log>>
    /\ UNCHANGED <<otherVars, inputVars, scoreVars, penaltyVars, parseVars>>

Warning(kind, alias, value) == [kind |-> kind, alias |-> alias, value |-> value]

\* lines 60-72: one turn of the loop over the CTEs
AnalyzeCTE ==
    /\ pc = "cte"
    /\ idx <= Len(ctes)
    /\ LET cte == ctes[idx]
           alias == tree[cte].alias
           sc == _compute_structural_score(tree, This(tree, cte), 0, None)
           pen == _compute_semantic_penalty(tree, This(tree, cte), embedder,
                                            similarity_threshold, log_warnings)
           sscs == Sscs(Half(sc), pen.penalty)
       IN  /\ cte_score' = sc
           /\ struct_score' = struct_score + sc
           /\ component_scores' = Append(component_scores, [label |-> "CTE", alias |-> alias, score |-> sc])
           /\ IF pen.ok
              THEN /\ cte_penalty' = pen.penalty
                   /\ cte_sscs' = sscs
                   /\ sscs_scores' = DictSet(sscs_scores, alias, Entry(sscs, Half(sc), pen.penalty))
                   /\ log' = log \o pen.log \o
                        (IF Exceeds(sscs, complexity_threshold, log_warnings)
                         THEN <<Warning("cte", alias, sscs)>> ELSE <<>>)
                   /\ idx' = idx + 1
                   /\ UNCHANGED <<pc, result>>
              ELSE /\ result' = [kind |-> "raised"]
                   /\ pc' = "done"
                   /\ UNCHANGED <<cte_penalty, cte_sscs, sscs_scores, log, idx>>
    /\ UNCHANGED <<ctes, main_score, main_penalty, main_sscs, semantic_penalty,
                   alias_stats, final_sscs>>
    /\ UNCHANGED <<otherVars, inputVars, scoreVars, penaltyVars, parseVars>>

\* lines 76-83: the main query, scored without its WITH block
AnalyzeMain ==
    /\ pc = "cte"
    /\ idx > Len(ctes)
    /\ LET sc == _compute_structural_score(tree, 1, 0, "With")
           pen == _compute_semantic_penalty(tree, MainQueryRoot(tree), embedder,
                                            similarity_threshold, log_warnings)
           sscs == Sscs(Half(sc), pen.penalty)
       IN  /\ main_score' = sc
           /\ struct_score' = struct_score + sc
           /\ component_scores' = Append(component_scores, [label |-> "Main Query", alias |-> "", score |-> sc])
           /\ IF pen.ok
              THEN /\ main_penalty' = pen.penalty
                   /\ main_sscs' = sscs
                   /\ log' = log \o pen.log \o
                        (IF Exceeds(sscs, complexity_threshold, log_warnings)
                         THEN <<Warning("main", "", sscs)>> ELSE <<>>)
                   /\ pc' = "global"
                   /\ UNCHANGED result
              ELSE /\ result' = [kind |-> "raised"]
                   /\ pc' = "done"
                   /\ UNCHANGED <<main_penalty, main_sscs, log>>
    /\ UNCHANGED <<ctes, idx, sscs_scores, cte_score, cte_penalty, cte_sscs,
                   semantic_penalty, alias_stats, final_sscs>>
    /\ UNCHANGED <<otherVars, inputVars, scoreVars, penaltyVars, parseVars>>

\* lines 87-110: the global penalty, the last two entries and the return
Finish ==
    /\ pc = "global"
    /\ LET pen == _compute_semantic_penalty(tree, 1, embedder,
                                            similarity_threshold, log_warnings)
           msscs == Sscs(Half(main_score), pen.penalty)
           fsscs == Sscs(Half(struct_score), pen.penalty)
           scores == DictSet(DictSet(sscs_scores, "final SELECT",
                                     Entry(msscs, Half(main_score), pen.penalty)),
                             "overall",
                             Entry(fsscs, Half(struct_score), pen.penalty))
       IN  IF pen.ok
           THEN /\ semantic_penalty' = pen.penalty
                /\ alias_stats' = pen.stats
                /\ log' = log \o pen.log
                /\ main_sscs' = msscs
                /\ final_sscs' = fsscs
                /\ sscs_scores' = scores
                /\ result' = [kind |-> "ok", sscs_scores |-> scores,
                              breakdown |-> component_scores,
                              alias_analysis |-> pen.stats]
           ELSE /\ result' = [kind |-> "raised"]
                /\ UNCHANGED <<semantic_penalty, alias_stats, log, main_sscs,
                               final_sscs, sscs_scores>>
    /\ pc' = "done"
    /\ UNCHANGED <<ctes, idx, struct_score, component_scores, cte_score, cte_penalty,
                   cte_sscs, main_score, main_penalty>>
    /\ UNCHANGED <<otherVars, inputVars, scoreVars, penaltyVars, parseVars>>

Next == Parse \/ AnalyzeCTE \/ AnalyzeMain \/ Finish

Spec == Init /\ [][Next]_vars

\* ------------------------------------------------------------- several calls
\* calculate called again and again on one instance
CallFamily == Family({"Select", "With", "CTE", "Where"}, {"c"}, {"x"}, {""}, {"a"},
                     MaxCallNodes)
CallTrees == Trees(CallFamily)
CallThresholds == {10, 70}

Unparsable == <<Node("Select", 0, "", "")>>

\* the arguments of a call and what its environment answers
Input ==
    [tree |-> tree, parse_ok |-> parse_ok, embedder |-> embedder,
     similarity_threshold |-> similarity_threshold]

InitCalls ==
    /\ pc = "parse"
    /\ \E ok \in BOOLEAN : \E t \in (IF ok THEN CallTrees ELSE {Unparsable}) :
         /\ parse_ok = ok
         /\ tree = t
         /\ embedder \in Embedders(t)
    /\ similarity_threshold \in CallThresholds
    /\ complexity_threshold \in ComplexityThresholds
    /\ log_warnings = TRUE
    /\ CalcIdle /\ ScoreIdle /\ PenaltyIdle /\ ParseIdle
    /\ OtherIdle

\* the previous call has returned; the caller keeps its arguments and result
\* or goes on remembering an earlier call, and calls calculate again
CallAgain ==
    /\ pc = "done"
    /\ \E ok \in BOOLEAN : \E t \in (IF ok THEN CallTrees ELSE {Unparsable}) :
         /\ parse_ok' = ok
         /\ tree' = t
         /\ embedder' \in Embedders(t)
    /\ similarity_threshold' \in CallThresholds
    /\ \/ memo' = [kind |-> "call", input |-> Input, result |-> result,
                   between |-> FALSE]
       \/ /\ memo.kind = "call"
          /\ memo' = [memo EXCEPT !.between = TRUE]
    /\ LET start == StartOfCall([struct_score |-> struct_score,
                                 component_scores |-> component_scores,
                                 sscs_scores |-> sscs_scores])
       IN  /\ struct_score' = start.struct_score
           /\ component_scores' = start.component_scores
           /\ sscs_scores' = start.sscs_scores
    /\ ctes' = <<>> /\ idx' = 1
    /\ cte_score' = 0 /\ cte_penalty' = NoRat /\ cte_sscs' = NoRat
    /\ main_score' = 0 /\ main_penalty' = NoRat /\ main_sscs' = NoRat
    /\ semantic_penalty' = NoRat /\ alias_stats' = <<>> /\ final_sscs' = NoRat
    /\ log' = <<>>
    /\ result' = [kind |-> "none"]
    /\ pc' = "parse"
    /\ UNCHANGED <<complexity_threshold, log_warnings, self>>
    /\ UNCHANGED <<suggestVars, requestVars, scoreVars, penaltyVars, parseVars>>

NextCalls == Next \/ CallAgain

SpecCalls == InitCalls /\ [][NextCalls]_vars

\* ------------------------------------------------------------- direct calls
\* _compute_structural_score(node, depth) on any node of any tree
ScoreFamily == Family(NodeTypes, {"c"}, {"x"}, {""}, {"a"}, MaxScoreNodes)
ScoreTrees == Trees(ScoreFamily)

InitScore ==
    /\ pc = "score"
    /\ tree \in ScoreTrees
    /\ node \in 1..Len(tree)
    /\ depth \in 0..MaxDepth
    /\ score = 0
    /\ similarity_threshold = 70
    /\ EnvIdle /\ CalcIdle /\ PenaltyIdle /\ ParseIdle
    /\ OtherIdle

ScoreApply ==
    /\ pc = "score"
    /\ score' = _compute_structural_score(tree, node, depth, None)
    /\ pc' = "scored"
    /\ UNCHANGED <<otherVars, inputVars, calcVars, node, depth, penaltyVars, parseVars>>

SpecScore == InitScore /\ [][ScoreApply]_vars

\* _compute_semantic_penalty on any analysis list, then again after the
\* threshold is raised or one similarity is pushed below it
PenaltySims == {-100, 20, 70, 100}
PenaltyThresholds == {20, 70, 100}

Item(k, s) == [alias |-> "x", code |-> <<k>>, type |-> "column", similarity |-> s]

AnalysisLists ==
    UNION {{[k \in 1..n |-> Item(k, f[k])] : f \in [1..n -> PenaltySims]} : n \in 0..MaxRecords}

InitPenalty ==
    /\ pc = "penalty"
    /\ analysis \in AnalysisLists
    /\ similarity_threshold \in PenaltyThresholds
    /\ penalty_out = [penalty |-> NoRat, stats |-> <<>>]
    /\ tree = <<Node("Select", 0, "", "")>>
    /\ EnvIdle /\ CalcIdle /\ ScoreIdle /\ ParseIdle
    /\ OtherIdle

PenaltyApply ==
    /\ pc = "penalty"
    /\ penalty_out' = PenaltyOf(analysis, similarity_threshold)
    /\ pc' = "penalized"
    /\ UNCHANGED <<otherVars, inputVars, calcVars, scoreVars, analysis, parseVars>>

RaiseThreshold ==
    /\ pc \in {"penalized", "raised", "lowered"}
    /\ \E th \in PenaltyThresholds :
        /\ th > similarity_threshold
        /\ similarity_threshold' = th
        /\ penalty_out' = PenaltyOf(analysis, th)
    /\ pc' = "raised"
    /\ UNCHANGED <<tree, parse_ok, embedder, complexity_threshold, log_warnings>>
    /\ UNCHANGED <<otherVars, calcVars, scoreVars, analysis, parseVars>>

LowerSimilarity ==
    /\ pc \in {"penalized", "raised", "lowered"}
    /\ \E k \in 1..Len(analysis), s \in PenaltySims :
        /\ ~IsLow(analysis[k].similarity, similarity_threshold)
        /\ IsLow(s, similarity_threshold)
        /\ analysis' = [analysis EXCEPT ![k].similarity = s]
        /\ penalty_out' = PenaltyOf(analysis', similarity_threshold)
    /\ pc' = "lowered"
    /\ UNCHANGED <<otherVars, inputVars, calcVars, scoreVars, parseVars>>

NextPenalty == PenaltyApply \/ RaiseThreshold \/ LowerSimilarity

SpecPenalty == InitPenalty /\ [][NextPenalty]_vars

\* SQLParser.parse on any tree
ParseFamily ==
    Family({"Select", "With", "CTE", "Subquery", "Alias", "Table", "Column"},
           {"c"}, {"", "x"}, {"", "x"}, {"a", "b"}, MaxParseNodes)
ParseTrees == Trees(ParseFamily)

InitParse ==
    /\ pc = "parsing"
    /\ tree \in ParseTrees
    /\ results = <<>>
    /\ similarity_threshold = 70
    /\ EnvIdle /\ CalcIdle /\ ScoreIdle /\ PenaltyIdle
    /\ OtherIdle

ParseApply ==
    /\ pc = "parsing"
    /\ results' = parse(tree, 1)
    /\ pc' = "parsed"
    /\ UNCHANGED <<otherVars, inputVars, calcVars, scoreVars, penaltyVars>>

SpecParse == InitParse /\ [][ParseApply]_vars

\* LLMSuggester.suggest_aliases on any answer of the provider
InitSuggest ==
    /\ pc = "suggest"
    /\ response \in Texts(MaxTextLen)
    /\ suggestion = [kind |-> "none"]
    /\ tree = <<Node("Select", 0, "", "")>>
    /\ similarity_threshold = 70
    /\ EnvIdle /\ CalcIdle /\ ScoreIdle /\ PenaltyIdle /\ ParseIdle
    /\ EngineIdle /\ RequestIdle

SuggestApply ==
    /\ pc = "suggest"
    /\ suggestion' = suggest_aliases(response)
    /\ pc' = "suggested"
    /\ UNCHANGED <<inputVars, calcVars, scoreVars, penaltyVars, parseVars, response, callVars, requestVars>>

SpecSuggest == InitSuggest /\ [][SuggestApply]_vars

\* an LLMRequest built from any arguments, then extended message by message
Roles == {"user", "root"}
Payloads == {<<>>, <<"ws">>, <<"data">>}
MimeTypes == {<<"image", "/", "png">>, <<"png">>}
Images == {ImagePart(b, m) : b \in Payloads, m \in MimeTypes}
ImageLists == {<<>>} \cup {<<im>> : im \in Images}
FirstMessages ==
    {<<>>} \cup {<<Message_text_and_images(r, "hi", ims)>> : r \in Roles, ims \in ImageLists}

InitRequest ==
    /\ pc = "new"
    /\ request \in [provider : {"openai", "bing"}, model : {"", "gpt"},
                    messages : FirstMessages,
                    max_tokens : {0, 1000}, temperature : {3, 25}]
    /\ raised = ""
    /\ tree = <<Node("Select", 0, "", "")>>
    /\ similarity_threshold = 70
    /\ EnvIdle /\ CalcIdle /\ ScoreIdle /\ PenaltyIdle /\ ParseIdle
    /\ SuggestIdle /\ EngineIdle

RequestFrame ==
    UNCHANGED <<inputVars, calcVars, scoreVars, penaltyVars, parseVars,
                suggestVars, callVars>>

\* the dataclass has stored the fields; a ValueError leaves the caller
\* without a request
__post_init__ ==
    /\ pc = "new"
    /\ raised' = _validate(request)
    /\ pc' = IF raised' = "" THEN "built" ELSE "rejected"
    /\ UNCHANGED request
    /\ RequestFrame

add_text ==
    /\ pc = "built"
    /\ Len(request.messages) < MaxMessages
    /\ \E role \in Roles :
         request' = [request EXCEPT !.messages = Append(@, Message_text(role, "hi"))]
    /\ raised' = _validate(request')
    /\ UNCHANGED pc
    /\ RequestFrame

add_text_and_images ==
    /\ pc = "built"
    /\ Len(request.messages) < MaxMessages
    /\ \E role \in Roles, images \in ImageLists :
         request' = [request EXCEPT
                        !.messages = Append(@, Message_text_and_images(role, "hi", images))]
    /\ raised' = _validate(request')
    /\ UNCHANGED pc
    /\ RequestFrame

NextRequest == __post_init__ \/ add_text \/ add_text_and_images

SpecRequest == InitRequest /\ [][NextRequest]_vars

\* ------------------------------------------------------------- reference notions
RECURSIVE SumOver(_, _)
\* the sum of f[x] over the finite set S
SumOver(S, f) ==
    IF S = {} THEN 0
    ELSE LET x == CHOOSE y \in S : TRUE IN f[x] + SumOver(S \ {x}, f)

Weighted(t, n) == t[n].type \in DOMAIN weights

\* Subquery nodes strictly above n, inside the subtree of root
SubqueriesAbove(t, root, n) ==
    {a \in Ancestors(t, n) \cap SubNodes(t, root) : t[a].type = "Subquery"}

\* closed form of the structural score of a subtree, in half units
RefStructural(t, root, d0) ==
    LET W == {n \in SubNodes(t, root) : Weighted(t, n)}
    IN  SumOver(W, [n \in W |->
            2 * weights[t[n].type] + d0 + Cardinality(SubqueriesAbove(t, root, n))])

\* the bodies of the CTE definitions of the statement
CteBodies(t) == {b \in 1..Len(t) : t[b].parent # 0 /\ t[t[b].parent].type = "CTE"}

\* the component a node belongs to: the innermost CTE body around it, else
\* the statement
ComponentOf(t, n) ==
    LET around == ({n} \cup Ancestors(t, n)) \cap CteBodies(t)
    IN  IF around = {} THEN 1 ELSE CHOOSE b \in around : \A c \in around : c <= b

\* every weighted node charged once, by its own component
RefOnce(t) ==
    LET W == {n \in 1..Len(t) : Weighted(t, n)}
    IN  SumOver(W, [n \in W |->
            2 * weights[t[n].type]
            + Cardinality(SubqueriesAbove(t, ComponentOf(t, n), n))])

\* the alias records of a subtree, as a set of (kind, alias, code) triples
RefRecords(t, root) ==
    LET S == SubNodes(t, root)
    IN  {<<"CTE", t[n].alias, Code(t, n + 1)>> : n \in {m \in S : t[m].type = "CTE"}}
        \cup {<<IF t[n + 1].type \in {"Table", "Subquery", "Select"} THEN "table" ELSE "column",
                t[n].alias, Code(t, n + 1)>> :
                n \in {m \in S : t[m].type = "Alias" /\ t[m].alias # ""}}
        \cup {<<"table", t[n].alias, Code(t, n)>> :
                n \in {m \in S : t[m].type = "Table" /\ t[m].alias # ""}}

\* alpha * (sum of 1 - similarity over the low records) / (number of records)
RefPenaltyOfSims(simOf, R, threshold) ==
    LET low == {r \in R : simOf[r] < threshold}
    IN  IF R = {} \/ low = {} THEN RatInt(0)
        ELSE Rat(semantic_weight.n * SumOver(low, [r \in low |-> 100 - simOf[r]]),
                 semantic_weight.d * 100 * Cardinality(R))

\* the penalty of the aliases of one subtree
RefPenalty(t, root, emb, threshold) ==
    LET R == RefRecords(t, root)
    IN  RefPenaltyOfSims([r \in R |-> emb.sim[r[2]]], R, threshold)

\* structural * (1 + penalty)
RefSscs(score2, pen) == Rat(score2 * (pen.d + pen.n), 2 * pen.d)

RefEntry(score2, pen) ==
    [SSCS |-> Round2(RefSscs(score2, pen)), StructuralScore |-> Round2(Rat(score2, 2)),
     SemanticPenalty |-> Round2(pen)]

Succeeded == pc = "done" /\ result.kind = "ok"

\* the step that ends one turn of the CTE loop, and what it appended to the log
CteTurn == pc = "cte" /\ idx' = idx + 1
MainTurn == pc = "cte" /\ pc' = "global"
Appended == SubSeq(log', Len(log) + 1, Len(log'))
IsThresholdWarning(w) == w.kind \in {"cte", "main"}
ThresholdWarnings(l) == SelectSeq(l, IsThresholdWarning)

\* ------------------------------------------------------------- C1
C1_CteStep ==
    CteTurn =>
        LET cte == ctes[idx]
            body == This(tree, cte)
            loc == RefPenalty(tree, body, embedder, similarity_threshold)
        IN  /\ cte_score' = RefStructural(tree, body, 0)
            /\ RatEq(cte_penalty', loc)
            /\ RatEq(cte_sscs', RefSscs(cte_score', loc))
            /\ DictGet(sscs_scores', tree[cte].alias) = RefEntry(cte_score', loc)

C1_Result ==
    Succeeded =>
        LET g == RefPenalty(tree, 1, embedder, similarity_threshold)
            out == result.sscs_scores
        IN  /\ RatEq(semantic_penalty, g)
            /\ RatEq(main_sscs, RefSscs(main_score, g))
            /\ RatEq(final_sscs, RefSscs(struct_score, g))
            /\ DictGet(out, "final SELECT") = RefEntry(main_score, g)
            /\ DictGet(out, "overall") = RefEntry(struct_score, g)
            /\ \A e \in Range(out) :
                e.key \notin {"final SELECT", "overall"} =>
                    \E k \in 1..Len(ctes) :
                        /\ tree[ctes[k]].alias = e.key
                        /\ e.val = RefEntry(RefStructural(tree, This(tree, ctes[k]), 0),
                                            RefPenalty(tree, This(tree, ctes[k]), embedder,
                                                       similarity_threshold))

\* C1: in a successful calculate every CTE component is written as
\* round(bodyScore * (1 + penalty of the body's own aliases)), and whatever
\* CTE entries the result holds have that form; the "final SELECT" entry is
\* mainScore * (1 + g) and the "overall" entry totalScore * (1 + g), with g
\* the one penalty of the aliases of the whole statement.
C1_Blending == [][C1_CteStep]_vars /\ []C1_Result

\* a successful run whose CTE carries a local penalty different from the
\* global one, both positive, with a scored main query
C1_Witness ==
    /\ Succeeded
    /\ main_score > 0
    /\ RatGt(semantic_penalty, RatInt(0))
    /\ \E k \in 1..Len(ctes) :
        LET loc == RefPenalty(tree, This(tree, ctes[k]), embedder, similarity_threshold)
        IN  /\ RatGt(loc, semantic_penalty)
            /\ tree[ctes[k]].alias = "c"
            /\ DictGet(result.sscs_scores, "c").SSCS > DictGet(result.sscs_scores, "c").StructuralScore

\* ------------------------------------------------------------- C2
\* C2: no double counting - the overall structural score of a successful
\* calculate charges every weighted node exactly once (by the component the
\* node belongs to), also when a CTE is defined inside another CTE's body or
\* inside a subquery of the main query.
C2_NoDoubleCounting == Succeeded => struct_score = RefOnce(tree)

\* ------------------------------------------------------------- C7
C7_CteStep ==
    CteTurn =>
        LET alias == tree[ctes[idx]].alias
            warned == ThresholdWarnings(Appended)
        IN  /\ DictGet(sscs_scores', alias).SSCS = Round2(cte_sscs')
            /\ warned = IF log_warnings /\ RatGt(cte_sscs', RatInt(complexity_threshold))
                        THEN <<Warning("cte", alias, cte_sscs')>> ELSE <<>>
            /\ result' = result /\ pc' = "cte"

C7_MainStep ==
    MainTurn => result' = result /\ Len(ThresholdWarnings(Appended)) <= 1

C7_Result ==
    Succeeded =>
        LET IsMain(w) == w.kind = "main"
            warned == SelectSeq(log, IsMain)
            reported == RefSscs(main_score, semantic_penalty)
        IN  /\ DictGet(result.sscs_scores, "final SELECT").SSCS = Round2(reported)
            /\ warned = IF log_warnings /\ RatGt(reported, RatInt(complexity_threshold))
                        THEN <<Warning("main", "", reported)>> ELSE <<>>
            /\ ~log_warnings => log = <<>>

\* C7: with warnings enabled a threshold warning is logged for a CTE exactly
\* when the SSCS rounded into its entry is strictly above
\* complexity_threshold, and for the main query exactly when
\* mainScore * (1 + global penalty) is; the step that warns still writes the
\* entry and goes on, and without warnings enabled nothing is logged.
C7_Warnings == [][C7_CteStep /\ C7_MainStep]_vars /\ []C7_Result

\* a successful run that warned for the main query on the strength of the
\* global penalty alone, and kept silent for a CTE whose SSCS equals the
\* threshold
C7_Witness ==
    /\ Succeeded
    /\ log_warnings
    /\ \E w \in Range(log) : w.kind = "main"
    /\ 2 * complexity_threshold = main_score
    /\ \E k \in 1..Len(ctes) :
        /\ 2 * complexity_threshold = _compute_structural_score(tree, This(tree, ctes[k]), 0, None)
        /\ RefPenalty(tree, This(tree, ctes[k]), embedder, similarity_threshold) = RatInt(0)
        /\ \A w \in Range(log) : w.kind = "cte" => w.alias # tree[ctes[k]].alias

\* ------------------------------------------------------------- C9
EmbedderFails ==
    \E r \in RefRecords(tree, 1) : r[2] \in embedder.broken

\* C9: a calculation that cannot parse its SQL, or whose embedder fails on
\* some alias or code text, ends by returning an error result without
\* component scores; it never raises into the caller.
C9_ErrorsAreValues ==
    (pc = "done" /\ (~parse_ok \/ EmbedderFails)) => result = [kind |-> "error"]

\* ------------------------------------------------------------- C10
\* C10: the per-component mapping of a successful result has one entry per
\* CTE in definition order, then the main-query entry, then "overall" -
\* n + 2 entries whatever the CTE names - and the breakdown has n + 1 labels.
C10_OneEntryPerComponent ==
    Succeeded =>
        LET n == Len(ctes)
            out == result.sscs_scores
        IN  /\ Len(out) = n + 2
            /\ \A k \in 1..n : k <= Len(out) => out[k].key = tree[ctes[k]].alias
            /\ Len(result.breakdown) = n + 1

Penalized == pc \in {"penalized", "raised", "lowered"}

RefPenaltyOfList(items, threshold) ==
    RefPenaltyOfSims([k \in 1..Len(items) |-> items[k].similarity], 1..Len(items), threshold)

\* C4: for a non-empty analysis list the penalty is semantic_weight * (sum of
\* 1 - similarity over the records strictly below the threshold) / (number
\* of all records), and exactly 0.0 when no record is strictly below it.
C4_PenaltyFormula ==
    (Penalized /\ analysis # <<>>) =>
        /\ RatEq(penalty_out.penalty, RefPenaltyOfList(analysis, similarity_threshold))
        /\ (\A k \in 1..Len(analysis) : analysis[k].similarity >= similarity_threshold)
              => penalty_out.penalty = RatInt(0)

\* a list with a record at the threshold, a record below it and so fewer
\* low records than records
C4_Witness ==
    /\ pc = "penalized"
    /\ \E k \in 1..Len(analysis) : analysis[k].similarity = similarity_threshold
    /\ \E k \in 1..Len(analysis) : analysis[k].similarity < similarity_threshold
    /\ RatGt(penalty_out.penalty, RatInt(0))
    /\ penalty_out.stats.low_similarity_count < penalty_out.stats.total

\* ------------------------------------------------------------- C5
TwoAlpha == RatAdd(semantic_weight, semantic_weight)

\* C5 as stated: the penalty lies in [0, alpha] for similarities anywhere in
\* [-1, 1] and any threshold.
C5_PenaltyWithinAlpha ==
    Penalized =>
        /\ RatLeq(RatInt(0), penalty_out.penalty)
        /\ RatLeq(penalty_out.penalty, semantic_weight)

\* C5 amended: the penalty lies in [0, 2 * alpha] for similarities in
\* [-1, 1] and any threshold, and in [0, alpha] when no record has a
\* negative similarity; so a component's SSCS is never below its
\* non-negative structural score.
C5_PenaltyWithinTwoAlpha ==
    Penalized =>
        /\ RatLeq(RatInt(0), penalty_out.penalty)
        /\ RatLeq(penalty_out.penalty, TwoAlpha)
        /\ (\A k \in 1..Len(analysis) : analysis[k].similarity >= 0)
              => RatLeq(penalty_out.penalty, semantic_weight)
        /\ \A s2 \in 0..MaxScore2 :
              RatLeq(Half(s2), Sscs(Half(s2), penalty_out.penalty))

\* every record at similarity -1: the penalty is exactly 2 * alpha
C5_Witness ==
    /\ pc = "penalized"
    /\ analysis # <<>>
    /\ \A k \in 1..Len(analysis) : analysis[k].similarity = -100
    /\ RatEq(penalty_out.penalty, TwoAlpha)

\* ------------------------------------------------------------- C6
C6_Step ==
    (Penalized /\ pc' \in {"raised", "lowered"}) =>
        RatLeq(penalty_out.penalty, penalty_out'.penalty)

\* C6: the penalty never decreases when the set of low-similarity records
\* grows - because the threshold was raised, or because one similarity went
\* from at or above the threshold to below it - all else held fixed.
C6_Monotone == [][C6_Step]_vars

\* after a similarity was pushed below the threshold: a positive penalty
\* with some record still at or above the threshold
C6_Witness ==
    /\ pc = "lowered"
    /\ RatGt(penalty_out.penalty, RatInt(0))
    /\ penalty_out.stats.low_similarity_count >= 2
    /\ penalty_out.stats.low_similarity_count < penalty_out.stats.total

\* ------------------------------------------------------------- C8
Key(r) == <<r.type, r.alias, r.code>>

\* everything the three passes find, in pass order
Occurrences(t) == CtePass(t, 1) \o AliasPass(t, 1) \o TablePass(t, 1)

FirstAt(occs, key) ==
    CHOOSE i \in 1..Len(occs) :
        /\ Key(occs[i]) = key
        /\ \A j \in 1..(i - 1) : Key(occs[j]) # key

\* C8: SQLParser.parse returns no two records with the same (type, alias,
\* code), returns every such triple with a non-empty alias that the CTE
\* pass, the Alias pass or the Table pass finds, and orders the records by
\* first occurrence across the three passes.
C8_DedupInOrder ==
    pc = "parsed" =>
        LET occs == Occurrences(tree)
            n == Len(results)
        IN  /\ \A i, j \in 1..n : i < j => Key(results[i]) # Key(results[j])
            /\ {Key(results[i]) : i \in 1..n}
                 = {Key(occs[i]) : i \in {k \in 1..Len(occs) : occs[k].alias # ""}}
            /\ {Key(results[i]) : i \in 1..n} = RefRecords(tree, 1)
            /\ \A i, j \in 1..n :
                 i < j => FirstAt(occs, Key(results[i])) < FirstAt(occs, Key(results[j]))

\* a tree with a repeated triple, a nameless alias and both kinds of record
C8_Witness ==
    /\ pc = "parsed"
    /\ Len(results) >= 2
    /\ \E i, j \in 1..Len(Occurrences(tree)) :
          i < j /\ Occurrences(tree)[i].alias # ""
                /\ Key(Occurrences(tree)[i]) = Key(Occurrences(tree)[j])
    /\ \E i \in 1..Len(results) : results[i].type = "column"
    /\ \E i \in 1..Len(results) : results[i].type = "table"

\* ------------------------------------------------------------- C11
StatsFields == {"total", "low_similarity_count", "low_similarity_examples",
                "average_similarity"}

\* |x| <= unit / 2: a value in thousandths is its exact value rounded
WithinHalf(x, unit) == 2 * x <= unit /\ -2 * x <= unit

LowRecords(records, threshold) ==
    LET Below(item) == item.similarity < threshold IN SelectSeq(records, Below)

\* C11: the alias statistics returned with every penalty carry the same four
\* fields, for an empty record list too: total is the number of records,
\* the low-similarity count is the number of records below the threshold
\* (so at most total), the examples are the first min(5, count) low records
\* in extraction order, the average is the mean over all records, and an
\* empty list gives penalty 0 with total 0, count 0, no examples, average 0.
\* Similarities are reported in thousandths.
C11_StatsFaithful ==
    Penalized =>
        LET stats == penalty_out.stats
            low == LowRecords(analysis, similarity_threshold)
            shown == IF Len(low) < MaxExamples THEN Len(low) ELSE MaxExamples
        IN  /\ DOMAIN stats = StatsFields
            /\ stats.total = Len(analysis)
            /\ stats.low_similarity_count = Len(low)
            /\ stats.low_similarity_count <= stats.total
            /\ Len(stats.low_similarity_examples) = shown
            /\ \A k \in 1..shown :
                  /\ stats.low_similarity_examples[k].alias = low[k].alias
                  /\ stats.low_similarity_examples[k].type = low[k].type
                  /\ stats.low_similarity_examples[k].similarity
                       = 10 * low[k].similarity
            /\ IF analysis = <<>>
               THEN /\ RatEq(penalty_out.penalty, RatInt(0))
                    /\ stats.average_similarity = 0
               ELSE WithinHalf(stats.average_similarity * 100 * Len(analysis)
                                 - 1000 * SumSimilarity(analysis),
                               100 * Len(analysis))

\* ------------------------------------------------------------- C12
\* an object of key -> string pairs, whitespace allowed between the pieces
IsStringObject(text) ==
    LET inked == SelectSeq(text, LAMBDA c : c # "ws")
    IN  inked \in {<<"{", "}">>, <<"{", "dq", ":", "dq", "}">>}

\* some stretch of the text is a JSON object of key -> string pairs
HoldsStringObject(text) ==
    \E i \in 1..Len(text) : \E j \in i..Len(text) :
        /\ text[i] = "{" /\ text[j] = "}"
        /\ IsStringObject(Slice(text, i, j))

\* C12: for every answer of the provider that holds no well-formed JSON
\* object of key -> string pairs - an answer with no object at all included -
\* suggest_aliases signals a parse error and returns no suggestion object.
C12_NoSilentCoercion ==
    (pc = "suggested" /\ ~HoldsStringObject(response)) =>
        suggestion.kind = "ValueError"

\* ------------------------------------------------------------- C13
C13_SameResult ==
    (pc = "done" /\ memo.kind = "call" /\ memo.input = Input) =>
        result = memo.result

C13_Untouched == self' = self

\* C13: on one SSCSCalculator instance a call's result depends only on its
\* arguments and on what the embedder answers - a call with the arguments
\* and embedder answers of an earlier call returns the earlier result,
\* whatever was calculated before or between the two - and no call changes
\* the weight table, semantic_weight or any other field of the instance.
C13_Stateless ==
    /\ [][C13_Untouched]_vars
    /\ [](self = __init__)
    /\ []C13_SameResult

\* a successful call with CTEs and a positive score, made again with the
\* same arguments after another call ran between the two
C13_Witness ==
    /\ pc = "done"
    /\ memo.kind = "call" /\ memo.between
    /\ memo.input = Input
    /\ result.kind = "ok"
    /\ ctes # <<>>
    /\ struct_score > 0

\* ------------------------------------------------------------- C14
\* C14: a constructed LLMRequest passes _validate in every state it reaches
\* through add_text and add_text_and_images, calls that raise ValueError
\* included: a rejected call leaves the messages as they were and no
\* message that failed validation stays in the list.
C14_AlwaysValid == pc = "built" => _validate(request) = ""

====
